---- MODULE Spec2Model ----
(***************************************************************************)
(* Model of the Python client wrappers of STINGER                          *)
(* (src/src/py/stinger/stinger_net.py): StingerStream, the batch builder   *)
(* and sender, and StingerAlg, the phase brackets of an algorithm.         *)
(*                                                                         *)
(* The wrappers are Python 2 code (c_char_p is built from str, also from   *)
(* the default host='localhost'), so `/` on two ints is floor division.    *)
(* Buffers are ctypes arrays: they are modelled as functions over          *)
(* 0..size-1, the indices of the source.  A char* field is a string or     *)
(* NULL, an int64 field an integer.                                        *)
(***************************************************************************)
EXTENDS Integers, Sequences, FiniteSets, TLC

\* ------------------------------------------------------------- bounds ---
\* The initial capacity of each sequence: 5000 in the source (a tuning
\* knob), scaled down so that growth is reached within the bounds.
InitialSize == 1
\* The number of calls made on one stream in a run.
MaxSteps == 4
\* The number of calls made on one algorithm session in a run.
MaxAlgCalls == 3
\* The largest number of vertices (stinger_alg_max_vertices) of a data blob.
MaxNv == 2
\* The number of calls made on the data arrays of one blob in a run.
MaxDataCalls == 4
\* The number of calls made on one monitor session in a run.
MaxMonCalls == 4
\* The number of edge calls made on one Stinger wrapper in a run.
MaxCoreCalls == 3

\* ----------------------------------------------------------- Python values
NULL == "NULL"

\* An argument that is an int or a str (the source tests isinstance(x, str)).
PyInt(n) == [isstr |-> FALSE, i |-> n, s |-> NULL]
PyStr(x) == [isstr |-> TRUE, i |-> 0, s |-> x]

\* ctypes.c_char_p(x) of a str and ctypes.c_int64(x) of an int.
c_char_p(x) == x.s
c_int64(x) == x.i

\* The optional argument insert_strings: <<>> is None, <<b>> the bool b.
None == <<>>
Some(b) == <<b>>

\* ------------------------------------------------------------- inputs ---
\* Every integer given is non-zero and every value differs from the others, so
\* that a field left at 0, left over or swapped shows.
EdgeIds == {<<PyInt(1), PyInt(2)>>}
EdgeNames == {<<PyStr("a"), PyStr("b")>>}
EdgeTypes == {PyInt(3), PyStr("t")}
VertexTypes == {PyInt(4), PyStr("u")}
Weights == {PyInt(5)}
Timestamps == {PyInt(7)}
Increments == {PyInt(6)}
InsertStrings == {None, Some(TRUE), Some(FALSE)}
\* What the foreign call stream_send_batch hands back: 0, or an error code.
ReturnCodes == {0, -1}

\* The endpoints a caller gives in a mode: names in string mode, ids otherwise.
Endpoints(strings) == IF strings THEN EdgeNames ELSE EdgeIds

\* ------------------------------------------------------------ records ---
\* A zeroed StingerEdgeUpdate and StingerVertexUpdate, as (T * n)() makes them.
ZeroEdgeUpdate ==
  [etype |-> 0, etype_str |-> NULL, source |-> 0, source_str |-> NULL,
   destination |-> 0, destination_str |-> NULL, weight |-> 0, time |-> 0,
   result |-> 0, meta_index |-> 0]

ZeroVertexUpdate ==
  [vertex |-> 0, vertex_str |-> NULL, type |-> 0, type_str |-> NULL,
   set_weight |-> 0, incr_weight |-> 0, meta_index |-> 0]

\* (T * n)(): a zero-initialised array of n records.
NewArray(zero, n) == [i \in 0..(n - 1) |-> zero]

ArrayLen(a) == Cardinality(DOMAIN a)

\* ctypes.memmove(dst, src, n records).
Memmove(dst, src, n) == [i \in DOMAIN dst |-> IF i < n THEN src[i] ELSE dst[i]]

VARIABLES
  insertions_size, insertions, insertions_refs, insertions_count,
  deletions_size, deletions, deletions_refs, deletions_count,
  vertex_updates_size, vertex_updates, vertex_updates_refs, vertex_updates_count,
  only_strings, undirected,
  \* what the caller did (not program state): the add calls since the last
  \* send, the last call with what it returned, and the number of calls
  ins_calls, del_calls, vu_calls, last_call, steps, sends,
  \* StingerAlg: the library calls forwarded, the last call, the begin_*
  \* calls the caller has not yet matched with an end_*
  alg_forwarded, alg_last, alg_open,
  \* StingerDataArray: the descriptor string, the vertex count and the address
  \* of the algorithm's data blob, the bytes of the blob, the view the caller
  \* holds (the last one constructed), and the last call with its outcome
  da_desc, da_nv, da_ptr, blob, view, da_last, da_calls,
  \* StingerMon: the library functions called so far, the last call with its
  \* outcome, and the read locks the caller's calls have taken and not released
  mon_forwarded, mon_last, mon_held,
  \* The server side of the connections: where the stream's send_batch call
  \* stands, the batches the stream has transmitted, the batches the server has
  \* applied to the graph, and whether the server has granted an algorithm
  \* entry to its init phase and not yet seen it end
  wire, wire_sent, srv_applied, srv_holds,
  \* Stinger (stinger_core): the edges and the vertex names the graph engine
  \* holds, the last wrapper call with its outcome, and the calls made
  core_edges, core_names, core_last, core_calls

streamVars ==
  <<insertions_size, insertions, insertions_refs, insertions_count,
    deletions_size, deletions, deletions_refs, deletions_count,
    vertex_updates_size, vertex_updates, vertex_updates_refs, vertex_updates_count,
    only_strings, undirected, ins_calls, del_calls, vu_calls, last_call, steps, sends>>

algVars == <<alg_forwarded, alg_last, alg_open>>

dataVars == <<da_desc, da_nv, da_ptr, blob, view, da_last, da_calls>>

monVars == <<mon_forwarded, mon_last, mon_held>>

netVars == <<wire, wire_sent, srv_applied, srv_holds>>

coreVars == <<core_edges, core_names, core_last, core_calls>>

vars == <<streamVars, algVars, dataVars, monVars, netVars, coreVars>>

\* ------------------------------------------------- StingerStream: helpers
\* add_insert, line 163: the mode of this call, which is stored in the stream.
InsertMode(insert_strings, cur) ==
  IF insert_strings # None THEN insert_strings[1] ELSE cur

\* A faulty variant of IsFull: the growth test is late by one record.
IsFullLate(count, size) == count > size

\* The test that starts a growth step.
IsFull(count, size) == count >= size

\* self.x_size *= 2
DoubledSize(size) == size * 2

\* A faulty variant of CopiedRecords: the copy is one record short.
CopiedRecordsShort(new_size) == (new_size \div 2) - 1

\* The number of records memmove copies: sizeof(T * (new_size / 2)), where
\* new_size is an int and `/` the floor division of Python 2.
CopiedRecords(new_size) == new_size \div 2

\* tmp = (T * new_size)(); memmove(tmp, old, ...); self.x = tmp
GrownArray(zero, old, new_size) ==
  Memmove(NewArray(zero, new_size), old, CopiedRecords(new_size))

\* The capacity, the buffer and the retained buffers after the growth test.
SizeAfterGrowth(count, size) ==
  IF IsFull(count, size) THEN DoubledSize(size) ELSE size

ArrayAfterGrowth(zero, buf, count, size) ==
  IF IsFull(count, size) THEN GrownArray(zero, buf, DoubledSize(size)) ELSE buf

RefsAfterGrowth(refs, buf, count, size) ==
  IF IsFull(count, size) THEN Append(refs, buf) ELSE refs

\* The endpoint fields of an edge record, lines 173-180 and 210-217.
EdgeEndpoints(rec, strings, vfrom, vto) ==
  IF strings
  THEN [rec EXCEPT !.source_str = c_char_p(vfrom),
                   !.destination_str = c_char_p(vto)]
  ELSE [rec EXCEPT !.source_str = NULL,
                   !.destination_str = NULL,
                   !.source = c_int64(vfrom),
                   !.destination = c_int64(vto)]

\* The type fields of an edge record, lines 182-185 and 219-222.
EdgeType(rec, etype) ==
  IF etype.isstr
  THEN [rec EXCEPT !.etype_str = c_char_p(etype)]
  ELSE [rec EXCEPT !.etype = c_int64(etype)]

\* Lines 187-188.
EdgeWeightTime(rec, weight, ts) ==
  [rec EXCEPT !.weight = c_int64(weight), !.time = c_int64(ts)]

\* The vertex fields of a vertex update, lines 246-250.
VertexField(rec, strings, vtx) ==
  IF strings
  THEN [rec EXCEPT !.vertex_str = c_char_p(vtx)]
  ELSE [rec EXCEPT !.vertex = c_int64(vtx), !.vertex_str = NULL]

\* Lines 252-255.
VertexType(rec, vtype) ==
  IF vtype.isstr
  THEN [rec EXCEPT !.type_str = c_char_p(vtype)]
  ELSE [rec EXCEPT !.type = c_int64(vtype)]

\* Line 257 assigns the attribute `weight` of the element: StingerVertexUpdate
\* declares no field of that name (the field is set_weight), so the value
\* lands in the attribute dictionary of the temporary element object and no
\* field of the record changes.
VertexWeight(rec, weight) == rec

\* Line 258.
VertexIncrWeight(rec, incr_weight) ==
  [rec EXCEPT !.incr_weight = c_int64(incr_weight)]

\* self.x_count += 1
CountAfterAdd(count) == count + 1

\* self.x[self.x_count]: a ctypes array raises IndexError for an index
\* outside 0..len-1; the call then ends there, before the count is changed.
HasSlot(buf, index) == index \in DOMAIN buf

\* Faulty variants of CountAfterSend and RefsAfterSend: the reset is missing.
CountAfterSendKept(count) == count
RefsAfterSendKept(refs) == refs

\* send_batch, lines 274-279: self.x_count = 0 and self.x_refs = [].
CountAfterSend(count) == 0
RefsAfterSend(refs) == <<>>

\* The records stream_send_batch is handed: the buffer and its count.  The
\* library reads count records from the buffer's address; what lies past the
\* end of the buffer is unknown memory.
Sent(buf, count) ==
  [i \in 0..(count - 1) |-> IF HasSlot(buf, i) THEN buf[i] ELSE "unknown"]

\* send_batch, lines 268-273: the call is an expression statement, so what
\* the foreign function returns is dropped; nothing is raised and the method
\* returns None.
SendBatchRaises(rc) == FALSE
SendBatchReturns(rc) == "None"

\* ---------------------------------------------------------------- Init ---
StreamInit ==
  /\ insertions_size = InitialSize
  /\ insertions = NewArray(ZeroEdgeUpdate, insertions_size)
  /\ insertions_refs = <<>>
  /\ insertions_count = 0
  /\ deletions_size = InitialSize
  /\ deletions = NewArray(ZeroEdgeUpdate, deletions_size)
  /\ deletions_refs = <<>>
  /\ deletions_count = 0
  /\ vertex_updates_size = InitialSize
  /\ vertex_updates = NewArray(ZeroVertexUpdate, deletions_size)
  /\ vertex_updates_refs = <<>>
  /\ vertex_updates_count = 0
  /\ only_strings \in BOOLEAN
  /\ undirected \in BOOLEAN
  /\ ins_calls = <<>>
  /\ del_calls = <<>>
  /\ vu_calls = <<>>
  /\ last_call = [op |-> "init"]
  /\ steps = 0
  /\ sends = 0

AlgInit ==
  /\ alg_forwarded = <<>>
  /\ alg_last = [op |-> "register"]
  /\ alg_open = [p \in {"init", "pre", "post"} |-> 0]

\* No StingerDataArray has been constructed yet.
NoView == [field_name |-> <<>>, data_type |-> "", nv |-> 0,
           data |-> [addr |-> 0, ctype |-> ""]]

\* No algorithm data blob is attached to a stream or an algorithm session.
DataIdle ==
  /\ da_desc = <<>>
  /\ da_nv = 0
  /\ da_ptr = 0
  /\ blob = <<>>
  /\ view = NoView
  /\ da_last = [op |-> "none"]
  /\ da_calls = 0

MonInit ==
  /\ mon_forwarded = <<>>
  /\ mon_last = [op |-> "init"]
  /\ mon_held = 0

NetInit ==
  /\ wire = "idle"
  /\ wire_sent = 0
  /\ srv_applied = 0
  /\ srv_holds = FALSE

CoreInit ==
  /\ core_edges = {}
  /\ core_names = {}
  /\ core_last = [op |-> "init"]
  /\ core_calls = 0

Init == StreamInit /\ AlgInit /\ DataIdle /\ MonInit /\ NetInit /\ CoreInit

\* ------------------------------------------------------ StingerStream ---
add_insert(vfrom, vto, etype, weight, ts, insert_strings) ==
  LET strings == InsertMode(insert_strings, only_strings)
      size == SizeAfterGrowth(insertions_count, insertions_size)
      buf == ArrayAfterGrowth(ZeroEdgeUpdate, insertions, insertions_count,
                              insertions_size)
      rec == EdgeWeightTime(
               EdgeType(
                 EdgeEndpoints(buf[insertions_count], strings, vfrom, vto),
                 etype),
               weight, ts)
  IN
  /\ steps < MaxSteps
  /\ only_strings' = strings
  /\ insertions_size' = size
  /\ insertions_refs' = RefsAfterGrowth(insertions_refs, insertions,
                                        insertions_count, insertions_size)
  /\ insertions' = IF HasSlot(buf, insertions_count)
                   THEN [buf EXCEPT ![insertions_count] = rec] ELSE buf
  /\ insertions_count' = IF HasSlot(buf, insertions_count)
                         THEN CountAfterAdd(insertions_count) ELSE insertions_count
  /\ ins_calls' = Append(ins_calls,
       [strings |-> strings, vfrom |-> vfrom, vto |-> vto, etype |-> etype,
        weight |-> weight, ts |-> ts])
  /\ last_call' = [op |-> "add_insert",
                   grew |-> IsFull(insertions_count, insertions_size),
                   index_error |-> ~HasSlot(buf, insertions_count)]
  /\ steps' = steps + 1
  /\ UNCHANGED <<deletions_size, deletions, deletions_refs, deletions_count,
                 vertex_updates_size, vertex_updates, vertex_updates_refs,
                 vertex_updates_count, undirected, del_calls, vu_calls, sends>>

\* A faulty variant of add_delete: the record goes to the insertions.
add_delete_on_insertions(vfrom, vto, etype) ==
  LET size == SizeAfterGrowth(insertions_count, insertions_size)
      buf == ArrayAfterGrowth(ZeroEdgeUpdate, insertions, insertions_count,
                              insertions_size)
      rec == EdgeType(
               EdgeEndpoints(buf[insertions_count], only_strings, vfrom, vto),
               etype)
  IN
  /\ steps < MaxSteps
  /\ insertions_size' = size
  /\ insertions_refs' = RefsAfterGrowth(insertions_refs, insertions,
                                        insertions_count, insertions_size)
  /\ insertions' = IF HasSlot(buf, insertions_count)
                   THEN [buf EXCEPT ![insertions_count] = rec] ELSE buf
  /\ insertions_count' = IF HasSlot(buf, insertions_count)
                         THEN CountAfterAdd(insertions_count) ELSE insertions_count
  /\ del_calls' = Append(del_calls,
       [strings |-> only_strings, vfrom |-> vfrom, vto |-> vto, etype |-> etype])
  /\ last_call' = [op |-> "add_delete",
                   grew |-> IsFull(insertions_count, insertions_size),
                   index_error |-> ~HasSlot(buf, insertions_count)]
  /\ steps' = steps + 1
  /\ UNCHANGED <<deletions_size, deletions, deletions_refs, deletions_count,
                 vertex_updates_size, vertex_updates, vertex_updates_refs,
                 vertex_updates_count, only_strings, undirected, ins_calls,
                 vu_calls, sends>>

add_delete(vfrom, vto, etype) ==
  LET size == SizeAfterGrowth(deletions_count, deletions_size)
      buf == ArrayAfterGrowth(ZeroEdgeUpdate, deletions, deletions_count,
                              deletions_size)
      rec == EdgeType(
               EdgeEndpoints(buf[deletions_count], only_strings, vfrom, vto),
               etype)
  IN
  /\ steps < MaxSteps
  /\ deletions_size' = size
  /\ deletions_refs' = RefsAfterGrowth(deletions_refs, deletions,
                                       deletions_count, deletions_size)
  /\ deletions' = IF HasSlot(buf, deletions_count)
                  THEN [buf EXCEPT ![deletions_count] = rec] ELSE buf
  /\ deletions_count' = IF HasSlot(buf, deletions_count)
                        THEN CountAfterAdd(deletions_count) ELSE deletions_count
  /\ del_calls' = Append(del_calls,
       [strings |-> only_strings, vfrom |-> vfrom, vto |-> vto, etype |-> etype])
  /\ last_call' = [op |-> "add_delete",
                   grew |-> IsFull(deletions_count, deletions_size),
                   index_error |-> ~HasSlot(buf, deletions_count)]
  /\ steps' = steps + 1
  /\ UNCHANGED <<insertions_size, insertions, insertions_refs, insertions_count,
                 vertex_updates_size, vertex_updates, vertex_updates_refs,
                 vertex_updates_count, only_strings, undirected, ins_calls,
                 vu_calls, sends>>

add_vertex_update(vtx, vtype, weight, incr_weight) ==
  LET size == SizeAfterGrowth(vertex_updates_count, vertex_updates_size)
      buf == ArrayAfterGrowth(ZeroVertexUpdate, vertex_updates,
                              vertex_updates_count, vertex_updates_size)
      rec == VertexIncrWeight(
               VertexWeight(
                 VertexType(
                   VertexField(buf[vertex_updates_count], only_strings, vtx),
                   vtype),
                 weight),
               incr_weight)
  IN
  /\ steps < MaxSteps
  /\ vertex_updates_size' = size
  /\ vertex_updates_refs' = RefsAfterGrowth(vertex_updates_refs, vertex_updates,
                                            vertex_updates_count, vertex_updates_size)
  /\ vertex_updates' = IF HasSlot(buf, vertex_updates_count)
                       THEN [buf EXCEPT ![vertex_updates_count] = rec] ELSE buf
  /\ vertex_updates_count' = IF HasSlot(buf, vertex_updates_count)
                             THEN CountAfterAdd(vertex_updates_count)
                             ELSE vertex_updates_count
  /\ vu_calls' = Append(vu_calls,
       [strings |-> only_strings, vtx |-> vtx, vtype |-> vtype,
        weight |-> weight, incr_weight |-> incr_weight])
  /\ last_call' = [op |-> "add_vertex_update",
                   grew |-> IsFull(vertex_updates_count, vertex_updates_size),
                   index_error |-> ~HasSlot(buf, vertex_updates_count)]
  /\ steps' = steps + 1
  /\ UNCHANGED <<insertions_size, insertions, insertions_refs, insertions_count,
                 deletions_size, deletions, deletions_refs, deletions_count,
                 only_strings, undirected, ins_calls, del_calls, sends>>

\* rc is what the server and the transport make of the request.
send_batch(rc) ==
  /\ steps < MaxSteps
  /\ last_call' =
       [op |-> "send_batch",
        request |->
          [only_strings |-> only_strings,
           insertions |-> Sent(insertions, insertions_count),
           insertions_count |-> insertions_count,
           deletions |-> Sent(deletions, deletions_count),
           deletions_count |-> deletions_count,
           vertex_updates |-> Sent(vertex_updates, vertex_updates_count),
           vertex_updates_count |-> vertex_updates_count,
           undirected |-> undirected],
        added |-> [ins |-> ins_calls, del |-> del_calls, vu |-> vu_calls],
        rc |-> rc,
        raised |-> SendBatchRaises(rc),
        returned |-> SendBatchReturns(rc)]
  /\ insertions_count' = CountAfterSend(insertions_count)
  /\ deletions_count' = CountAfterSend(deletions_count)
  /\ vertex_updates_count' = CountAfterSend(vertex_updates_count)
  /\ insertions_refs' = RefsAfterSend(insertions_refs)
  /\ deletions_refs' = RefsAfterSend(deletions_refs)
  /\ vertex_updates_refs' = RefsAfterSend(vertex_updates_refs)
  /\ ins_calls' = <<>>
  /\ del_calls' = <<>>
  /\ vu_calls' = <<>>
  /\ steps' = steps + 1
  /\ sends' = sends + 1
  /\ UNCHANGED <<insertions_size, insertions, deletions_size, deletions,
                 vertex_updates_size, vertex_updates, only_strings, undirected>>

AddInsert ==
  \E insert_strings \in InsertStrings :
    \E e \in Endpoints(InsertMode(insert_strings, only_strings)) :
      \E etype \in EdgeTypes, weight \in Weights, ts \in Timestamps :
        add_insert(e[1], e[2], etype, weight, ts, insert_strings)

AddDelete ==
  \E e \in Endpoints(only_strings), etype \in EdgeTypes :
    add_delete(e[1], e[2], etype)

AddVertexUpdate ==
  \E e \in Endpoints(only_strings), vtype \in VertexTypes,
     weight \in Weights, incr_weight \in Increments :
    add_vertex_update(e[1], vtype, weight, incr_weight)

SendBatch == \E rc \in ReturnCodes : send_batch(rc)

\* --------------------------------------------------- StingerDataArray ---
\* A Python str is a sequence of characters here, so that split(), indexing
\* and slicing are computed as the source computes them.
DescDfi == <<"d", "f", "i", " ", "x", " ", "y", " ", "z">>
DescLb == <<"l", "b", " ", " ", "n", " ", "m">>
DescScore == <<"d", " ", "s", "c", "o", "r", "e">>
Descriptors == {DescDfi, DescLb, DescScore}

\* The field names a caller asks for; <<"w">> is in no descriptor.
FieldNames == {<<"x">>, <<"y">>, <<"z">>, <<"n">>, <<"m">>,
               <<"s", "c", "o", "r", "e">>, <<"w">>}

\* The address of the blob (alg_data).
DataPtrs == {64}

\* str.split(): the maximal runs of characters that are not whitespace.
RECURSIVE SplitFrom(_, _, _, _)
SplitFrom(str, k, cur, acc) ==
  IF k > Len(str)
  THEN IF cur = <<>> THEN acc ELSE Append(acc, cur)
  ELSE IF str[k] = " "
       THEN SplitFrom(str, k + 1, <<>>, IF cur = <<>> THEN acc ELSE Append(acc, cur))
       ELSE SplitFrom(str, k + 1, Append(cur, str[k]), acc)

split(str) == SplitFrom(str, 1, <<>>, <<>>)

\* data_desc[1:] and data_desc[0] (the type tags) of the split descriptor.
DescNames(data_desc) == IF data_desc = <<>> THEN <<>> ELSE Tail(data_desc)
DescTags(data_desc) == data_desc[1]

\* list.index(x): the first position of x, counted from 0; ValueError when
\* x is not in the list.
InList(list, x) == \E k \in 1..Len(list) : list[k] = x
index(list, x) == (CHOOSE k \in 1..Len(list) :
                     list[k] = x /\ \A j \in 1..(k - 1) : list[j] # x) - 1

\* A faulty variant of OffsetWidth: 'f' counted as one byte.
OffsetWidthShortFloat(c) ==
  IF c = "d" \/ c = "l" THEN 8 ELSE IF c = "i" THEN 4 ELSE 1

\* Lines 382-384: the bytes per vertex of a field declared before the chosen one.
OffsetWidth(c) ==
  IF c = "d" \/ c = "l" THEN 8 ELSE IF c = "f" \/ c = "i" THEN 4 ELSE 1

\* Lines 380-386: functools.reduce(+, [width(c) for c in tags[:field_index]], 0).
RECURSIVE SumWidths(_, _)
SumWidths(tags, n) ==
  IF n = 0 THEN 0 ELSE SumWidths(tags, n - 1) + OffsetWidth(tags[n])

FieldOffset(tags, field_index) == SumWidths(tags, field_index)

\* A faulty variant of DataAddress: the offset is not scaled by nv.
DataAddressUnscaled(data_ptr, offset, nv) == data_ptr + offset

\* Line 388: self.data = data_ptr + (offset * self.nv).
DataAddress(data_ptr, offset, nv) == data_ptr + (offset * nv)

\* Lines 390-399: the element type the pointer is cast to.
CType(data_type) ==
  IF data_type = "d" THEN "c_double"
  ELSE IF data_type = "f" THEN "c_float"
  ELSE IF data_type = "l" THEN "c_int64"
  ELSE IF data_type = "i" THEN "c_int32"
  ELSE "c_int8"

\* ctypes.sizeof of the element types.
SizeOf(ctype) ==
  IF ctype = "c_double" \/ ctype = "c_int64" THEN 8
  ELSE IF ctype = "c_float" \/ ctype = "c_int32" THEN 4
  ELSE 1

\* A faulty variant of ConstructorOrder: the vertex count is asked for first.
ConstructorOrderNvFirst ==
  <<"split", "value", "print", "max_vertices", "index", "field_name",
    "data_type", "offset", "pointer", "cast">>

\* The statements of StingerDataArray.__init__ in their order: split (367),
\* data_ptr.value (369-370), print (372), index (373), field_name (375),
\* data_type (376), the vertex count (377), the offset (380-386), the address
\* (388) and the cast (390-399).
ConstructorOrder ==
  <<"split", "value", "print", "index", "field_name", "data_type",
    "max_vertices", "offset", "pointer", "cast">>

\* The exception a statement of the constructor raises, or "none".
ConstructorRaises(step, data_desc, field_name) ==
  IF step = "index" /\ ~InList(DescNames(data_desc), field_name)
  THEN "ValueError"
  ELSE IF step = "data_type"
          /\ InList(DescNames(data_desc), field_name)
          /\ (data_desc = <<>>
              \/ index(DescNames(data_desc), field_name) >= Len(DescTags(data_desc)))
  THEN "IndexError"
  ELSE "none"

\* The statements run: all of them up to and with the first that raises.
RECURSIVE Executed(_, _, _)
Executed(order, data_desc, field_name) ==
  IF order = <<>> THEN <<>>
  ELSE IF ConstructorRaises(Head(order), data_desc, field_name) # "none"
       THEN <<Head(order)>>
       ELSE <<Head(order)>> \o Executed(Tail(order), data_desc, field_name)

Raised(order, data_desc, field_name) ==
  LET done == Executed(order, data_desc, field_name)
  IN ConstructorRaises(done[Len(done)], data_desc, field_name)

\* The object __init__ leaves when it raises nothing.
DataArray(data_ptr, desc, field_name, nv) ==
  LET data_desc == split(desc)
      field_index == index(DescNames(data_desc), field_name)
      data_type == DescTags(data_desc)[field_index + 1]
      offset == FieldOffset(DescTags(data_desc), field_index)
  IN [field_name |-> field_name,
      data_type |-> data_type,
      nv |-> nv,
      data |-> [addr |-> DataAddress(data_ptr, offset, nv),
                ctype |-> CType(data_type)]]

\* The size of the blob: nv times the bytes per vertex of the descriptor.
BlobSize(desc, nv) ==
  LET tags == DescTags(split(desc))
  IN nv * SumWidths(tags, Len(tags))

\* ------------------------------------------------------------- memory ---
\* A byte of the blob: a zero byte, or byte k of the non-zero value v stored
\* as the element type t.  An element of any type is 0 exactly when all its
\* bytes are zero.
ZeroByte == [t |-> "zero", v |-> 0, k |-> 0]

\* What a read gives when its bytes are no stored element of its type or lie
\* outside the blob: some value.
UnknownValues == {0, 9}

\* Two's complement wrap of an int to a width, as ctypes stores it.
WrapSigned(v, bits) ==
  LET m == v % (2 ^ bits)
  IN IF m >= 2 ^ (bits - 1) THEN m - 2 ^ bits ELSE m

\* The value an element of the type holds after k is assigned to it.  The
\* values given here lie far inside the range of the 32 and 64 bit types and
\* are whole numbers, so only a c_int8 element changes what it is given.
Stored(ctype, k) == IF ctype = "c_int8" THEN WrapSigned(k, 8) ELSE k

\* A faulty variant of ElemBase: elements one byte apart.
ElemBaseByteStride(data, i) == data.addr + i

\* The address of self.data[i]: i elements of the pointer's type from data.
ElemBase(data, i) == data.addr + i * SizeOf(data.ctype)

\* The bytes self.data[i] names.
ElemBytes(data, i) ==
  ElemBase(data, i)..(ElemBase(data, i) + SizeOf(data.ctype) - 1)

InBlob(mem, ptr, a) == (a - ptr) \in DOMAIN mem

\* self.data[i] read: the values it can give.
ReadValues(mem, ptr, data, i) ==
  LET base == ElemBase(data, i)
  IN IF \E a \in ElemBytes(data, i) : ~InBlob(mem, ptr, a)
     THEN UnknownValues
     ELSE IF \A a \in ElemBytes(data, i) : mem[a - ptr] = ZeroByte
     THEN {0}
     ELSE IF /\ \A a \in ElemBytes(data, i) :
                  /\ mem[a - ptr].t = data.ctype
                  /\ mem[a - ptr].k = a - base
                  /\ mem[a - ptr].v = mem[base - ptr].v
     THEN {mem[base - ptr].v}
     ELSE UnknownValues

\* self.data[i] = k: the blob afterwards (bytes outside the blob are not kept).
Written(mem, ptr, data, i, k) ==
  LET base == ElemBase(data, i)
      val == Stored(data.ctype, k)
  IN [o \in DOMAIN mem |->
        IF (o + ptr) \in ElemBytes(data, i)
        THEN IF val = 0 THEN ZeroByte
             ELSE [t |-> data.ctype, v |-> val, k |-> o + ptr - base]
        ELSE mem[o]]

\* The graph engine's name lookup (Stinger.get_mapping): the id of a known
\* name, -1 for an unknown one.
KnownNames == {"a"}
VertexNameArgs == {PyStr("a"), PyStr("q")}
get_mapping(name) == IF name \in KnownNames THEN 0 ELSE -1

\* Lines 410-411 and 427-428: a str index is looked up.
Resolved(i) == IF i.isstr THEN get_mapping(i.s) ELSE i.i

\* A faulty variant of IndexAccepted: -1 passes.
IndexAcceptedFromMinusOne(i) == i >= -1

\* Lines 412 and 429: the test before self.data[i].
IndexAccepted(i) == i >= 0

\* The indices and the values a caller gives.
IndexArgs(nv) == {PyInt(n) : n \in (-1)..nv} \cup VertexNameArgs
ValueArgs(ctype) == IF ctype = "c_int8" THEN {0, 5, 261} ELSE {0, 5}

DataInit ==
  /\ da_desc \in Descriptors
  /\ da_nv \in 1..MaxNv
  /\ da_ptr \in DataPtrs
  /\ blob = [o \in 0..(BlobSize(da_desc, da_nv) - 1) |-> ZeroByte]
  /\ view = NoView
  /\ da_last = [op |-> "none"]
  /\ da_calls = 0

\* view = StingerDataArray(data_ptr, data_desc, field_name, s)
Construct(field_name) ==
  LET data_desc == split(da_desc)
      raised == Raised(ConstructorOrder, data_desc, field_name)
  IN
  /\ da_calls < MaxDataCalls
  /\ da_calls' = da_calls + 1
  /\ view' = IF raised = "none"
             THEN DataArray(da_ptr, da_desc, field_name, da_nv) ELSE view
  /\ da_last' = [op |-> "construct", field_name |-> field_name,
                 raised |-> raised,
                 executed |-> Executed(ConstructorOrder, data_desc, field_name),
                 produced |-> raised = "none"]
  /\ UNCHANGED <<da_desc, da_nv, da_ptr, blob>>

\* view[i]
getitem(i) ==
  LET n == Resolved(i) IN
  /\ view # NoView
  /\ da_calls < MaxDataCalls
  /\ da_calls' = da_calls + 1
  /\ \E result \in (IF IndexAccepted(n)
                    THEN ReadValues(blob, da_ptr, view.data, n) ELSE {0}) :
       da_last' = [op |-> "get", i |-> i, n |-> n, returned |-> result,
                   touched |-> IF IndexAccepted(n)
                               THEN ElemBytes(view.data, n) ELSE {}]
  /\ UNCHANGED <<da_desc, da_nv, da_ptr, blob, view>>

\* view.__setitem__(i, k)
setitem(i, k) ==
  LET n == Resolved(i) IN
  /\ view # NoView
  /\ da_calls < MaxDataCalls
  /\ da_calls' = da_calls + 1
  /\ blob' = IF IndexAccepted(n)
             THEN Written(blob, da_ptr, view.data, n, k) ELSE blob
  /\ da_last' = [op |-> "set", i |-> i, n |-> n, k |-> k,
                 returned |-> IF IndexAccepted(n) THEN k ELSE 0,
                 touched |-> IF IndexAccepted(n)
                             THEN ElemBytes(view.data, n) ELSE {}]
  /\ UNCHANGED <<da_desc, da_nv, da_ptr, view>>

DataConstruct == \E field_name \in FieldNames : Construct(field_name)
DataGet == \E i \in IndexArgs(da_nv) : getitem(i)
DataSet == \E i \in IndexArgs(da_nv), k \in ValueArgs(view.data.ctype) : setitem(i, k)

NextData ==
  \/ DataConstruct /\ UNCHANGED <<streamVars, algVars, monVars, netVars, coreVars>>
  \/ DataGet /\ UNCHANGED <<streamVars, algVars, monVars, netVars, coreVars>>
  \/ DataSet /\ UNCHANGED <<streamVars, algVars, monVars, netVars, coreVars>>

InitData == StreamInit /\ AlgInit /\ DataInit /\ MonInit /\ NetInit /\ CoreInit

SpecData == InitData /\ [][NextData]_vars

\* --------------------------------------------------------- StingerAlg ---
Phases == {"init", "pre", "post"}

\* A begin_* or end_* method: libstinger_net['stinger_alg_<fn>'](self.alg_ptr).
\* The method holds no phase state and tests nothing: the library call is made
\* whatever was called before.  Its value rc is dropped, the method returns
\* None and raises nothing.
AlgForwards(fn, open) == TRUE
AlgRaises(fn, open, rc) == FALSE

\* The begin_* calls of the caller not yet matched by an end_*.
OpenAfter(open, kind, phase) ==
  IF kind = "begin" THEN [open EXCEPT ![phase] = @ + 1]
  ELSE IF open[phase] > 0 THEN [open EXCEPT ![phase] = @ - 1]
  ELSE open

alg_call(kind, phase, rc) ==
  LET fn == "stinger_alg_" \o kind \o "_" \o phase IN
  /\ Len(alg_forwarded) < MaxAlgCalls
  /\ alg_forwarded' = IF AlgForwards(fn, alg_open)
                       THEN Append(alg_forwarded, fn) ELSE alg_forwarded
  /\ alg_last' = [op |-> kind, phase |-> phase,
                  open_before |-> alg_open,
                  forwarded |-> AlgForwards(fn, alg_open),
                  rc |-> rc,
                  raised |-> AlgRaises(fn, alg_open, rc)]
  /\ alg_open' = OpenAfter(alg_open, kind, phase)

begin_init == \E rc \in ReturnCodes : alg_call("begin", "init", rc)
end_init == \E rc \in ReturnCodes : alg_call("end", "init", rc)
begin_pre == \E rc \in ReturnCodes : alg_call("begin", "pre", rc)
end_pre == \E rc \in ReturnCodes : alg_call("end", "pre", rc)
begin_post == \E rc \in ReturnCodes : alg_call("begin", "post", rc)
end_post == \E rc \in ReturnCodes : alg_call("end", "post", rc)

NextAlg ==
  \/ begin_init /\ UNCHANGED <<streamVars, dataVars, monVars, netVars, coreVars>>
  \/ end_init /\ UNCHANGED <<streamVars, dataVars, monVars, netVars, coreVars>>
  \/ begin_pre /\ UNCHANGED <<streamVars, dataVars, monVars, netVars, coreVars>>
  \/ end_pre /\ UNCHANGED <<streamVars, dataVars, monVars, netVars, coreVars>>
  \/ begin_post /\ UNCHANGED <<streamVars, dataVars, monVars, netVars, coreVars>>
  \/ end_post /\ UNCHANGED <<streamVars, dataVars, monVars, netVars, coreVars>>

SpecAlg == Init /\ [][NextAlg]_vars

\* --------------------------------------------------------- StingerMon ---
\* get_read_lock, release_read_lock and wait_for_sync are each one statement:
\* libstinger_net['stinger_mon_<fn>'](self.mon).  The monitor keeps no record
\* of the locks it holds and tests nothing: the library call is made whatever
\* was called before, and the method returns None and raises nothing.
MonForwards(fn, held) == TRUE
MonRaises(fn, held) == FALSE

\* The read locks taken by the caller's calls and not yet released.
HeldAfter(held, fn) ==
  IF fn = "get_read_lock" THEN held + 1
  ELSE IF fn = "release_read_lock" /\ held > 0 THEN held - 1
  ELSE held

mon_call(fn) ==
  /\ Len(mon_forwarded) < MaxMonCalls
  /\ mon_forwarded' = IF MonForwards(fn, mon_held)
                       THEN Append(mon_forwarded, "stinger_mon_" \o fn)
                       ELSE mon_forwarded
  /\ mon_last' = [op |-> fn,
                  held_before |-> mon_held,
                  forwarded |-> MonForwards(fn, mon_held),
                  raised |-> MonRaises(fn, mon_held)]
  /\ mon_held' = HeldAfter(mon_held, fn)

get_read_lock == mon_call("get_read_lock")
release_read_lock == mon_call("release_read_lock")
wait_for_sync == mon_call("wait_for_sync")

NextMon ==
  \/ get_read_lock /\ UNCHANGED <<streamVars, algVars, dataVars, netVars, coreVars>>
  \/ release_read_lock /\ UNCHANGED <<streamVars, algVars, dataVars, netVars, coreVars>>
  \/ wait_for_sync /\ UNCHANGED <<streamVars, algVars, dataVars, netVars, coreVars>>

SpecMon == Init /\ [][NextMon]_vars

\* ------------------------------------------- send_batch and the server ---
\* The call libstinger_net['stream_send_batch'](...) of send_batch, taken apart
\* into what happens between its start and its return.  The library and the
\* server follow their contract: the request is transmitted, then either the
\* server applies the whole batch and acknowledges it, or the transport fails
\* and nothing of the batch is applied; the library call returns 0 after the
\* acknowledgement and -1 after the failure.  The server applies no batch
\* while it has an algorithm in its init phase.

\* send_batch is entered (line 262): the library transmits the request.
WireTransmit ==
  /\ wire = "idle"
  /\ steps < MaxSteps
  /\ wire' = "transmitted"
  /\ wire_sent' = wire_sent + 1
  /\ UNCHANGED <<streamVars, srv_applied, srv_holds>>

\* The server applies every record of the batch and acknowledges it.
ServerApply ==
  /\ wire = "transmitted"
  /\ ~srv_holds
  /\ wire' = "applied"
  /\ srv_applied' = srv_applied + 1
  /\ UNCHANGED <<streamVars, wire_sent, srv_holds>>

\* The connection fails before the server has applied the batch.
TransportFail ==
  /\ wire = "transmitted"
  /\ wire' = "failed"
  /\ UNCHANGED <<streamVars, wire_sent, srv_applied, srv_holds>>

\* What stream_send_batch returns to send_batch.
WireReturnCode(w) == IF w = "applied" THEN 0 ELSE -1

\* The library call returns and send_batch runs to its end (lines 273-279).
WireReturn ==
  /\ wire \in {"applied", "failed"}
  /\ send_batch(WireReturnCode(wire))
  /\ wire' = "idle"
  /\ UNCHANGED <<wire_sent, srv_applied, srv_holds>>

\* The caller is inside send_batch from the transmission to the return, and
\* makes no other call on the stream meanwhile.
NextWire ==
  \/ wire = "idle" /\ AddInsert /\ UNCHANGED <<algVars, dataVars, monVars, netVars, coreVars>>
  \/ wire = "idle" /\ AddDelete /\ UNCHANGED <<algVars, dataVars, monVars, netVars, coreVars>>
  \/ wire = "idle" /\ AddVertexUpdate /\ UNCHANGED <<algVars, dataVars, monVars, netVars, coreVars>>
  \/ WireTransmit /\ UNCHANGED <<algVars, dataVars, monVars, coreVars>>
  \/ ServerApply /\ UNCHANGED <<algVars, dataVars, monVars, coreVars>>
  \/ TransportFail /\ UNCHANGED <<algVars, dataVars, monVars, coreVars>>
  \/ WireReturn /\ UNCHANGED <<algVars, dataVars, monVars, coreVars>>

SpecWire == Init /\ [][NextWire]_vars

\* ------------------------------------------- begin_init and the server ---
\* What the server does with stinger_alg_begin_init and stinger_alg_end_init:
\* a call that reaches it (rc = 0) is granted entry to, or ends, the init
\* phase; a call that fails (rc = -1) leaves the server as it was.
HoldsAfter(holds, kind, rc) ==
  IF rc # 0 THEN holds ELSE kind = "begin"

init_call(kind, rc) ==
  /\ alg_call(kind, "init", rc)
  /\ srv_holds' = HoldsAfter(srv_holds, kind, rc)
  /\ UNCHANGED <<wire, wire_sent, srv_applied>>

AlgBeginInit == \E rc \in ReturnCodes : init_call("begin", rc)
AlgEndInit == \E rc \in ReturnCodes : init_call("end", rc)

\* One algorithm session and one stream client on the same server.
NextInit ==
  \/ AlgBeginInit /\ UNCHANGED <<streamVars, dataVars, monVars, coreVars>>
  \/ AlgEndInit /\ UNCHANGED <<streamVars, dataVars, monVars, coreVars>>
  \/ WireTransmit /\ UNCHANGED <<algVars, dataVars, monVars, coreVars>>
  \/ ServerApply /\ UNCHANGED <<algVars, dataVars, monVars, coreVars>>
  \/ TransportFail /\ UNCHANGED <<algVars, dataVars, monVars, coreVars>>
  \/ WireReturn /\ UNCHANGED <<algVars, dataVars, monVars, coreVars>>

SpecInit == Init /\ [][NextInit]_vars

\* ------------------------------------------------- Stinger (core) ---
\* The arguments a caller gives: vertex ids (0 is the first vertex), vertex
\* names, and edge types by number or by name.
CoreVertexArgs == {PyInt(0), PyInt(1), PyStr("a")}
CoreEtypeArgs == {PyInt(0), PyStr("t")}

\* The graph engine behind libstinger_core, by its contract: names are mapped
\* to vertex ids, a lookup of a name never created gives -1, an edge type
\* name has a type number, and edges are inserted and removed one direction
\* at a time or as a pair.
NameId(name) == 2
EtypeId(name) == 1
stinger_mapping_lookup(names, name) ==
  IF name \in names THEN NameId(name) ELSE -1
stinger_insert_edge(edges, etype, vfrom, vto) ==
  edges \cup {<<etype, vfrom, vto>>}
stinger_insert_edge_pair(edges, etype, vfrom, vto) ==
  edges \cup {<<etype, vfrom, vto>>, <<etype, vto, vfrom>>}
stinger_remove_edge(edges, etype, vfrom, vto) ==
  edges \ {<<etype, vfrom, vto>>}
stinger_remove_edge_pair(edges, etype, vfrom, vto) ==
  edges \ {<<etype, vfrom, vto>>, <<etype, vto, vfrom>>}

\* Lines 144-149 and 154-159: a str endpoint is created (or found) by
\* create_mapping, a str etype by create_etype.
InsertVertex(v) == IF v.isstr THEN NameId(v.s) ELSE v.i
NamesAfterInsert(names, vfrom, vto) ==
  names \cup (IF vfrom.isstr THEN {vfrom.s} ELSE {})
        \cup (IF vto.isstr THEN {vto.s} ELSE {})
CoreEtype(etype) == IF etype.isstr THEN EtypeId(etype.s) ELSE etype.i

\* Lines 184-187 and 195-198: a str endpoint is looked up with get_mapping.
RemoveVertex(names, v) ==
  IF v.isstr THEN stinger_mapping_lookup(names, v.s) ELSE v.i

\* Lines 190 and 201: if (vfrom > 0) and (vto > 0).
RemoveForwarded(vfrom, vto) == (vfrom > 0) /\ (vto > 0)

core_insert(pair, vfrom, vto, etype) ==
  LET f == InsertVertex(vfrom)
      t == InsertVertex(vto)
      ty == CoreEtype(etype)
  IN
  /\ core_calls < MaxCoreCalls
  /\ core_calls' = core_calls + 1
  /\ core_names' = NamesAfterInsert(core_names, vfrom, vto)
  /\ core_edges' = IF pair THEN stinger_insert_edge_pair(core_edges, ty, f, t)
                   ELSE stinger_insert_edge(core_edges, ty, f, t)
  /\ core_last' = [op |-> IF pair THEN "insert_edge_pair" ELSE "insert_edge",
                   vfrom |-> vfrom, vto |-> vto, etype |-> etype,
                   f |-> f, t |-> t, ty |-> ty, forwarded |-> TRUE]

core_remove(pair, vfrom, vto, etype) ==
  LET f == RemoveVertex(core_names, vfrom)
      t == RemoveVertex(core_names, vto)
      ty == CoreEtype(etype)
  IN
  /\ core_calls < MaxCoreCalls
  /\ core_calls' = core_calls + 1
  /\ core_names' = core_names
  /\ core_edges' = IF ~RemoveForwarded(f, t) THEN core_edges
                   ELSE IF pair THEN stinger_remove_edge_pair(core_edges, ty, f, t)
                   ELSE stinger_remove_edge(core_edges, ty, f, t)
  /\ core_last' = [op |-> IF pair THEN "remove_edge_pair" ELSE "remove_edge",
                   vfrom |-> vfrom, vto |-> vto, etype |-> etype,
                   f |-> f, t |-> t, ty |-> ty,
                   forwarded |-> RemoveForwarded(f, t)]

insert_edge ==
  \E vfrom \in CoreVertexArgs, vto \in CoreVertexArgs, etype \in CoreEtypeArgs :
    core_insert(FALSE, vfrom, vto, etype)
insert_edge_pair ==
  \E vfrom \in CoreVertexArgs, vto \in CoreVertexArgs, etype \in CoreEtypeArgs :
    core_insert(TRUE, vfrom, vto, etype)
remove_edge ==
  \E vfrom \in CoreVertexArgs, vto \in CoreVertexArgs, etype \in CoreEtypeArgs :
    core_remove(FALSE, vfrom, vto, etype)
remove_edge_pair ==
  \E vfrom \in CoreVertexArgs, vto \in CoreVertexArgs, etype \in CoreEtypeArgs :
    core_remove(TRUE, vfrom, vto, etype)

NextCore ==
  \/ insert_edge /\ UNCHANGED <<streamVars, algVars, dataVars, monVars, netVars>>
  \/ insert_edge_pair /\ UNCHANGED <<streamVars, algVars, dataVars, monVars, netVars>>
  \/ remove_edge /\ UNCHANGED <<streamVars, algVars, dataVars, monVars, netVars>>
  \/ remove_edge_pair /\ UNCHANGED <<streamVars, algVars, dataVars, monVars, netVars>>

SpecCore == Init /\ [][NextCore]_vars

Next ==
  \/ AddInsert /\ UNCHANGED <<algVars, dataVars, monVars, netVars, coreVars>>
  \/ AddDelete /\ UNCHANGED <<algVars, dataVars, monVars, netVars, coreVars>>
  \/ AddVertexUpdate /\ UNCHANGED <<algVars, dataVars, monVars, netVars, coreVars>>
  \/ SendBatch /\ UNCHANGED <<algVars, dataVars, monVars, netVars, coreVars>>

Spec == Init /\ [][Next]_vars

\* ================================================================ claims
\* A step that is a call of the named method.
IsCall(op) == steps' = steps + 1 /\ last_call'.op = op

\* ---------------------------------------------------------------- C1 ---
\* C1: each of insertions_count, deletions_count and vertex_updates_count
\* equals the number of calls of its add method made since construction or
\* since the last send_batch, and all three are zero right after send_batch.
C1_CountsEqualCalls ==
  /\ insertions_count = Len(ins_calls)
  /\ deletions_count = Len(del_calls)
  /\ vertex_updates_count = Len(vu_calls)
  /\ last_call.op = "send_batch" =>
       /\ insertions_count = 0
       /\ deletions_count = 0
       /\ vertex_updates_count = 0

\* A batch of an insertion, a deletion and a vertex update has just been sent.
C1_Witness ==
  /\ last_call.op = "send_batch"
  /\ last_call.request.insertions_count = 1
  /\ last_call.request.deletions_count = 1
  /\ last_call.request.vertex_updates_count = 1
  /\ insertions_count = 0

\* ---------------------------------------------------------------- C2 ---
\* C2: a record added in string mode reads back, before it is sent, with its
\* integer endpoint fields 0 and its string fields the names given; a record
\* added in integer mode reads back with NULL string fields and the integers
\* given.  For insertions, deletions and the vertex field of vertex updates,
\* after any sequence of adds and sends.
EdgeReadsBack(r, c) ==
  IF c.strings
  THEN /\ r.source = 0 /\ r.destination = 0
       /\ r.source_str = c.vfrom.s /\ r.destination_str = c.vto.s
  ELSE /\ r.source_str = NULL /\ r.destination_str = NULL
       /\ r.source = c.vfrom.i /\ r.destination = c.vto.i

VertexReadsBack(r, c) ==
  IF c.strings
  THEN r.vertex = 0 /\ r.vertex_str = c.vtx.s
  ELSE r.vertex_str = NULL /\ r.vertex = c.vtx.i

C2_RoundTrip ==
  /\ \A k \in 1..insertions_count : EdgeReadsBack(insertions[k - 1], ins_calls[k])
  /\ \A k \in 1..deletions_count : EdgeReadsBack(deletions[k - 1], del_calls[k])
  /\ \A k \in 1..vertex_updates_count :
       VertexReadsBack(vertex_updates[k - 1], vu_calls[k])

\* ---------------------------------------------------------------- C3 ---
\* C3: when an add call finds the count of its sequence equal to the capacity,
\* the capacity doubles and every record added to that sequence since the last
\* send is unchanged, field for field, at the same index afterwards.
Preserved(old, new, count) ==
  \A i \in 0..(count - 1) : HasSlot(new, i) /\ new[i] = old[i]

C3_GrowthPreservesRecords ==
  [][/\ (IsCall("add_insert") /\ insertions_count = insertions_size) =>
          /\ insertions_size' = 2 * insertions_size
          /\ Preserved(insertions, insertions', insertions_count)
     /\ (IsCall("add_delete") /\ deletions_count = deletions_size) =>
          /\ deletions_size' = 2 * deletions_size
          /\ Preserved(deletions, deletions', deletions_count)
     /\ (IsCall("add_vertex_update")
           /\ vertex_updates_count = vertex_updates_size) =>
          /\ vertex_updates_size' = 2 * vertex_updates_size
          /\ Preserved(vertex_updates, vertex_updates', vertex_updates_count)
    ]_vars

\* The insertions have grown twice within one batch, the second time with
\* two records to carry over.
C3_Witness ==
  /\ Len(insertions_refs) = 2
  /\ insertions_count = ArrayLen(insertions_refs[2]) + 1
  /\ insertions_count >= 3
  /\ last_call.op = "add_insert"
  /\ last_call.grew

\* ---------------------------------------------------------------- C4 ---
\* C4: in every reachable state, count <= capacity for each sequence, the
\* backing array of each sequence has exactly 'capacity' slots, and the slot an
\* add call writes exists (no add ends in an IndexError).
C4_CountWithinCapacity ==
  /\ insertions_count <= insertions_size
  /\ deletions_count <= deletions_size
  /\ vertex_updates_count <= vertex_updates_size
  /\ ArrayLen(insertions) = insertions_size
  /\ ArrayLen(deletions) = deletions_size
  /\ ArrayLen(vertex_updates) = vertex_updates_size
  /\ last_call.op \in {"add_insert", "add_delete", "add_vertex_update"} =>
       ~last_call.index_error

\* A sequence is full after it has grown: the next add must grow it again.
C4_Witness ==
  /\ vertex_updates_count = vertex_updates_size
  /\ Len(vertex_updates_refs) = 1
  /\ insertions_count = insertions_size

\* ---------------------------------------------------------------- C5 ---
\* C5: add_vertex_update(vtx, vtype, weight, incr_weight) appends a record
\* whose set_weight is the weight given and whose incr_weight is the
\* incr_weight given.
C5_VertexUpdateFullyPopulated ==
  \A k \in 1..vertex_updates_count :
    /\ vertex_updates[k - 1].set_weight = vu_calls[k].weight.i
    /\ vertex_updates[k - 1].incr_weight = vu_calls[k].incr_weight.i

\* ---------------------------------------------------------------- C6 ---
\* C6: the edge-type field of an edge record and the type field of a vertex
\* update hold the representation given (integer or name) and leave the other
\* one unset (0, NULL), in every record of every batch.
EdgeTypeReadsBack(r, c) ==
  IF c.etype.isstr
  THEN r.etype_str = c.etype.s /\ r.etype = 0
  ELSE r.etype = c.etype.i /\ r.etype_str = NULL

VertexTypeReadsBack(r, c) ==
  IF c.vtype.isstr
  THEN r.type_str = c.vtype.s /\ r.type = 0
  ELSE r.type = c.vtype.i /\ r.type_str = NULL

C6_TypeOneRepresentation ==
  /\ \A k \in 1..insertions_count :
       EdgeTypeReadsBack(insertions[k - 1], ins_calls[k])
  /\ \A k \in 1..deletions_count :
       EdgeTypeReadsBack(deletions[k - 1], del_calls[k])
  /\ \A k \in 1..vertex_updates_count :
       VertexTypeReadsBack(vertex_updates[k - 1], vu_calls[k])

\* ---------------------------------------------------------------- C7 ---
\* C7: when the transport or the server reports an error during send_batch,
\* send_batch fails towards its caller in a way that differs from the send of
\* an empty batch that succeeded, and the records of the batch are not dropped
\* as if they had been acknowledged.
C7_SendFailureSurfaced ==
  (last_call.op = "send_batch" /\ last_call.rc # 0) =>
    /\ last_call.raised \/ last_call.returned # SendBatchReturns(0)
    /\ insertions_count = last_call.request.insertions_count
    /\ deletions_count = last_call.request.deletions_count
    /\ vertex_updates_count = last_call.request.vertex_updates_count

\* ---------------------------------------------------------------- C8 ---
\* C8: after send_batch all three counts are 0 and no superseded buffer is
\* retained; the capacities are those reached before the send, and an
\* add_insert that follows writes its record at position 0, makes the count 1
\* and grows nothing.
C8_ResetAndReuse ==
  [][/\ IsCall("send_batch") =>
          /\ insertions_count' = 0
          /\ deletions_count' = 0
          /\ vertex_updates_count' = 0
          /\ insertions_refs' = <<>>
          /\ deletions_refs' = <<>>
          /\ vertex_updates_refs' = <<>>
          /\ insertions_size' = insertions_size
          /\ deletions_size' = deletions_size
          /\ vertex_updates_size' = vertex_updates_size
     /\ (IsCall("add_insert") /\ sends > 0 /\ Len(ins_calls) = 0) =>
          /\ insertions_count' = 1
          /\ insertions_size' = insertions_size
          /\ insertions_refs' = <<>>
          /\ ~last_call'.grew
          /\ insertions'[0].weight = ins_calls'[1].weight.i
          /\ insertions'[0].time = ins_calls'[1].ts.i
          /\ \A i \in 1..(insertions_size - 1) : insertions'[i] = insertions[i]
    ]_vars

\* The first add_insert after the send of a batch that had grown the buffer.
C8_Witness ==
  /\ sends = 1
  /\ last_call.op = "add_insert"
  /\ insertions_count = 1
  /\ insertions_size = 2 * InitialSize
  /\ insertions_refs = <<>>

\* ---------------------------------------------------------------- C9 ---
\* C9: a send_batch issues one request that carries, for each sequence, exactly
\* the records added since the previous send, at positions 0..count-1 in the
\* order of the add calls, with the endpoint, type, weight and timestamp
\* values given to those calls, and the counts, the string_mode flag and the
\* undirected flag of the stream.
EdgeGiven(r, c) ==
  /\ IF c.strings
     THEN r.source_str = c.vfrom.s /\ r.destination_str = c.vto.s
     ELSE r.source = c.vfrom.i /\ r.destination = c.vto.i
  /\ IF c.etype.isstr THEN r.etype_str = c.etype.s ELSE r.etype = c.etype.i

VertexGiven(r, c) ==
  /\ IF c.strings THEN r.vertex_str = c.vtx.s ELSE r.vertex = c.vtx.i
  /\ IF c.vtype.isstr THEN r.type_str = c.vtype.s ELSE r.type = c.vtype.i
  /\ r.set_weight = c.weight.i
  /\ r.incr_weight = c.incr_weight.i

C9_RequestCarriesBatch ==
  last_call.op = "send_batch" =>
    LET q == last_call.request
        a == last_call.added
    IN
    /\ q.insertions_count = Len(a.ins)
    /\ q.deletions_count = Len(a.del)
    /\ q.vertex_updates_count = Len(a.vu)
    /\ DOMAIN q.insertions = 0..(Len(a.ins) - 1)
    /\ DOMAIN q.deletions = 0..(Len(a.del) - 1)
    /\ DOMAIN q.vertex_updates = 0..(Len(a.vu) - 1)
    /\ \A k \in 1..Len(a.ins) :
         /\ EdgeGiven(q.insertions[k - 1], a.ins[k])
         /\ q.insertions[k - 1].weight = a.ins[k].weight.i
         /\ q.insertions[k - 1].time = a.ins[k].ts.i
    /\ \A k \in 1..Len(a.del) : EdgeGiven(q.deletions[k - 1], a.del[k])
    /\ \A k \in 1..Len(a.vu) : VertexGiven(q.vertex_updates[k - 1], a.vu[k])
    /\ q.only_strings = only_strings
    /\ q.undirected = undirected

\* --------------------------------------------------------------- C10 ---
\* C10: on a StingerAlg session, end_init, end_pre or end_post called when the
\* matching begin_* has not been called and left open is rejected with an
\* error, and is not forwarded or tolerated silently.
C10_UnmatchedEndRejected ==
  (alg_last.op = "end" /\ alg_last.open_before[alg_last.phase] = 0) =>
    alg_last.raised /\ ~alg_last.forwarded

\* --------------------------------------------------------------- C11 ---
\* C11: at most one phase is open at any time on a StingerAlg session, and a
\* begin_* call issued while a phase is still open is rejected, so that the
\* begin/end pairs of different phases never interleave.
OpenPhases(open) == open["init"] + open["pre"] + open["post"]

C11_OnePhaseOpen ==
  /\ OpenPhases(alg_open) <= 1
  /\ (alg_last.op = "begin" /\ OpenPhases(alg_last.open_before) > 0) =>
       alg_last.raised /\ ~alg_last.forwarded

\* --------------------------------------------------------------- C12 ---
\* C12: the view for field n_j of a descriptor with type tags T and vertex
\* count nv starts at byte offset nv * (sum of the widths of T[0..j-1]), the
\* widths being d=8, f=4, l=8, i=4, b=1; for "dfi x y z" field x is at 0,
\* field y at 8*nv and field z at 12*nv.
TagWidth(c) == CASE c = "d" -> 8 [] c = "f" -> 4 [] c = "l" -> 8
                 [] c = "i" -> 4 [] c = "b" -> 1

RECURSIVE WidthsBefore(_, _)
WidthsBefore(tags, j) ==
  IF j = 0 THEN 0 ELSE WidthsBefore(tags, j - 1) + TagWidth(tags[j])

ViewOffset == view.data.addr - da_ptr

C12_OffsetLaw ==
  view # NoView =>
    /\ \E j \in 0..(Len(split(da_desc)) - 2) :
         /\ split(da_desc)[j + 2] = view.field_name
         /\ ViewOffset = da_nv * WidthsBefore(split(da_desc)[1], j)
    /\ da_desc = DescDfi =>
         /\ view.field_name = <<"x">> => ViewOffset = 0
         /\ view.field_name = <<"y">> => ViewOffset = 8 * da_nv
         /\ view.field_name = <<"z">> => ViewOffset = 12 * da_nv

C12_Witness ==
  /\ da_desc = DescDfi
  /\ da_nv > 1
  /\ da_last.op = "construct"
  /\ da_last.produced
  /\ view.field_name = <<"z">>
  /\ ViewOffset = 12 * da_nv

\* --------------------------------------------------------------- C13 ---
\* C13: get(i) with an integer i < 0, or with a name the graph engine does not
\* resolve, returns zero; set(i, v) under the same condition leaves every byte
\* of the blob unmodified and returns zero.
Degenerate(i) == IF i.isstr THEN i.s \notin KnownNames ELSE i.i < 0

IsDataCall(op) == da_calls' = da_calls + 1 /\ da_last'.op = op

C13_DegenerateAccess ==
  [][/\ (IsDataCall("get") /\ Degenerate(da_last'.i)) =>
          da_last'.returned = 0
     /\ (IsDataCall("set") /\ Degenerate(da_last'.i)) =>
          /\ da_last'.returned = 0
          /\ blob' = blob]_vars

C13_Witness ==
  /\ da_last.op = "set"
  /\ da_last.i = PyInt(-1)
  /\ da_last.k = 5
  /\ da_last.returned = 0
  /\ view.data.addr > da_ptr
  /\ \E o \in DOMAIN blob : blob[o] # ZeroByte

\* --------------------------------------------------------------- C14 ---
\* C14: constructing a StingerDataArray for a field name that is not among the
\* descriptor's field names fails at construction time, before any offset
\* arithmetic, vertex-count query or pointer formation, and produces no view.
NamedInDescriptor(field_name) ==
  \E j \in 2..Len(split(da_desc)) : split(da_desc)[j] = field_name

BlobSteps == {"max_vertices", "offset", "pointer", "cast"}

C14_MissingFieldFailsEarly ==
  (da_last.op = "construct" /\ ~NamedInDescriptor(da_last.field_name)) =>
    /\ da_last.raised # "none"
    /\ ~da_last.produced
    /\ \A n \in 1..Len(da_last.executed) : da_last.executed[n] \notin BlobSteps
    /\ view.field_name # da_last.field_name

C14_Witness ==
  /\ da_last.op = "construct"
  /\ da_last.field_name = <<"n">>
  /\ da_desc = DescDfi
  /\ da_last.raised = "ValueError"
  /\ view = NoView

\* --------------------------------------------------------------- C15 ---
\* C15: a view spans exactly nv elements of its field: every get or set whose
\* index is accepted touches only bytes in [offset, offset + nv*width) of the
\* blob, the block of the view's own field.
FieldBlock(v) ==
  v.data.addr..(v.data.addr + v.nv * TagWidth(v.data_type) - 1)

C15_AccessWithinFieldBlock ==
  da_last.op \in {"get", "set"} => da_last.touched \subseteq FieldBlock(view)

\* --------------------------------------------------------------- C16 ---
\* C16: for every index 0 <= i < nv and every value v representable in the
\* field's element type, set(i, v) followed by get(i) returns v, and get(j) is
\* unchanged for every j # i of the same field; get(-1) returns 0.
Representable(ctype, v) ==
  IF ctype = "c_int8" THEN v \in (-128)..127 ELSE TRUE

InField(n) == n \in 0..(view.nv - 1)

C16_SetGetRoundTrip ==
  [][/\ (/\ da_last.op = "set"
         /\ InField(da_last.n)
         /\ Representable(view.data.ctype, da_last.k)
         /\ IsDataCall("get")
         /\ da_last'.n = da_last.n) =>
          da_last'.returned = da_last.k
     /\ (IsDataCall("set")
         /\ InField(da_last'.n)
         /\ Representable(view.data.ctype, da_last'.k)) =>
          \A j \in 0..(view.nv - 1) :
            j # da_last'.n =>
              ReadValues(blob', da_ptr, view.data, j)
                = ReadValues(blob, da_ptr, view.data, j)
     /\ (IsDataCall("get") /\ da_last'.i = PyInt(-1)) =>
          da_last'.returned = 0]_vars

C16_Witness ==
  /\ da_desc = DescScore
  /\ da_last.op = "get"
  /\ da_last.n = 1
  /\ da_last.returned = 5
  /\ view.nv = 2
  /\ ReadValues(blob, da_ptr, view.data, 0) = {5}

\* --------------------------------------------------------------- C20 ---
\* C20: for two distinct fields F and G of the same descriptor and the same nv
\* the byte blocks of their views are disjoint, so set(i, v) through F's view
\* with 0 <= i < nv leaves get(j) through G's view unchanged for every
\* 0 <= j < nv, whatever the widths of the fields declared before them.
OtherFields ==
  {split(da_desc)[j] : j \in 2..Len(split(da_desc))} \ {view.field_name}

ViewOf(field_name) == DataArray(da_ptr, da_desc, field_name, da_nv)

C20_FieldNonInterference ==
  [][(IsDataCall("set") /\ InField(da_last'.n)) =>
       LET others == {ViewOf(g) : g \in OtherFields}
       IN \A G \in others :
            /\ FieldBlock(G) \cap FieldBlock(view) = {}
            /\ \A j \in 0..(da_nv - 1) :
                 ReadValues(blob', da_ptr, G.data, j)
                   = ReadValues(blob, da_ptr, G.data, j)]_vars

C20_Witness ==
  /\ da_desc = DescDfi
  /\ da_nv > 1
  /\ da_last.op = "set"
  /\ da_last.n = da_nv - 1
  /\ da_last.k = 5
  /\ view.field_name = <<"y">>
  /\ ReadValues(blob, da_ptr, ViewOf(<<"z">>).data, 0) = {5}
  /\ ReadValues(blob, da_ptr, view.data, da_nv - 1) = {5}

\* --------------------------------------------------------------- C19 ---
\* C19: get_read_lock and release_read_lock on a StingerMon are paired:
\* release_read_lock called when this monitor holds no read lock (never
\* acquired, or already released) fails with an error and is not forwarded.
C19_UnpairedReleaseRejected ==
  (mon_last.op = "release_read_lock" /\ mon_last.held_before = 0) =>
    mon_last.raised /\ ~mon_last.forwarded

\* --------------------------------------------------------------- C17 ---
\* C17: send_batch returns, and resets the batch counts, only after the server
\* has applied every record of that batch; so on one stream connection batch
\* N is fully applied before any record of batch N+1 is transmitted.
C17_SynchronousSend ==
  /\ wire = "idle" => srv_applied = wire_sent
  /\ wire = "transmitted" => srv_applied = wire_sent - 1

\* --------------------------------------------------------------- C18 ---
\* C18: between the moment begin_init returns to an algorithm and the moment
\* that algorithm calls end_init, no batch sent by a stream client is applied
\* to the graph.
InInit == alg_last.op = "begin" /\ alg_last.phase = "init"

C18_NoMutationDuringInit ==
  [][InInit => srv_applied' = srv_applied]_vars

\* --------------------------------------------------------------- C21 ---
\* C21: the three sequences of a StingerStream are independent: add_insert
\* changes only the count, capacity, buffer and retained-buffer list of the
\* insertions and leaves those of the deletions and the vertex updates as they
\* were, also when it grows the buffer; likewise add_delete and
\* add_vertex_update.
InsertionsSeq ==
  <<insertions_count, insertions_size, insertions, insertions_refs>>
DeletionsSeq ==
  <<deletions_count, deletions_size, deletions, deletions_refs>>
VertexUpdatesSeq ==
  <<vertex_updates_count, vertex_updates_size, vertex_updates, vertex_updates_refs>>

C21_SequencesIndependent ==
  [][/\ IsCall("add_insert") =>
          UNCHANGED <<DeletionsSeq, VertexUpdatesSeq>>
     /\ IsCall("add_delete") =>
          UNCHANGED <<InsertionsSeq, VertexUpdatesSeq>>
     /\ IsCall("add_vertex_update") =>
          UNCHANGED <<InsertionsSeq, DeletionsSeq>>]_vars

C21_Witness ==
  /\ last_call.op = "add_delete"
  /\ last_call.grew
  /\ deletions_count = 2
  /\ insertions_count = 1
  /\ vertex_updates_count = 1
  /\ deletions_size > insertions_size

\* --------------------------------------------------------------- C22 ---
\* C22: at every send_batch every record of the three sequences was populated
\* in the addressing mode (names or integer ids) equal to the string-mode flag
\* transmitted with the batch; the insert_strings argument of one add_insert
\* affects only that call's record, so the mode of later calls and the flag
\* sent stay the constructor's 'strings' value.
ModesOf(calls) == {calls[n].strings : n \in 1..Len(calls)}

C22_ModeConsistency ==
  [][/\ IsCall("send_batch") =>
          (ModesOf(last_call'.added.ins) \cup ModesOf(last_call'.added.del)
             \cup ModesOf(last_call'.added.vu))
            \subseteq {last_call'.request.only_strings}
     /\ only_strings' = only_strings]_vars

\* --------------------------------------------------------------- C23 ---
\* C23: for all valid vertex ids vfrom, vto >= 0 (id 0 included) and any edge
\* type, insert_edge(vfrom, vto, etype) followed by remove_edge(vfrom, vto,
\* etype) issues the removal to the graph engine, so that the edge no longer
\* exists (likewise insert_edge_pair and remove_edge_pair); the removal is
\* skipped, leaving the graph unchanged, only when an endpoint name fails to
\* resolve.
IsCoreCall(op) == core_calls' = core_calls + 1 /\ core_last'.op = op

SameEdge(a, b) == a.vfrom = b.vfrom /\ a.vto = b.vto /\ a.etype = b.etype

Unresolved(names, v) == v.isstr /\ v.s \notin names

C23_InsertRemoveRoundTrip ==
  [][/\ (core_last.op = "insert_edge" /\ IsCoreCall("remove_edge")
           /\ SameEdge(core_last, core_last')) =>
          /\ core_last'.forwarded
          /\ <<core_last.ty, core_last.f, core_last.t>> \notin core_edges'
     /\ (core_last.op = "insert_edge_pair" /\ IsCoreCall("remove_edge_pair")
           /\ SameEdge(core_last, core_last')) =>
          /\ core_last'.forwarded
          /\ <<core_last.ty, core_last.f, core_last.t>> \notin core_edges'
          /\ <<core_last.ty, core_last.t, core_last.f>> \notin core_edges'
     /\ ((IsCoreCall("remove_edge") \/ IsCoreCall("remove_edge_pair"))
           /\ ~core_last'.forwarded) =>
          /\ Unresolved(core_names, core_last'.vfrom)
               \/ Unresolved(core_names, core_last'.vto)
          /\ core_edges' = core_edges]_vars

====
